---- MODULE Spec2Model ----
(***************************************************************************)
(* Model of boxing_strike_vision.py: the VideoStream capture source, the   *)
(* FPSCounter rate monitor and the BoxingStrikeVision session coordinator, *)
(* driven either by main() (Spec) or by a caller that invokes start, read, *)
(* release, update, process_frame, setup and cleanup in any order          *)
(* (SpecAPI).                                                              *)
(***************************************************************************)
EXTENDS Integers, Sequences, FiniteSets, TLC

VARIABLES
    mode,            \* "main": driven by main(); "api": methods called directly
    pc,              \* program position
    ret,             \* return points of the calls in progress
    exc,             \* exception propagating in main(), "none" if none
    caught,          \* exception caught by main()'s except clause
    escaped,         \* an exception left main() after the finally block
    result,          \* api mode: [op, out] of the latest direct call
    prevOp,          \* api mode: the direct call before the latest one
    nCalls,          \* api mode: number of direct calls made
    cap,             \* VideoStream.cap: None or a VideoCapture object
    newcap,          \* the VideoCapture constructed by start(), not yet assigned
    opened,          \* VideoCapture objects whose device is opened and unreleased
    nextHandle,      \* identity of the next VideoCapture object
    openFailures,    \* number of VideoCapture constructions that did not open
    windows,         \* names of the display windows that exist
    presented,       \* frame last given to cv2.imshow
    running,         \* BoxingStrikeVision.running
    frame,           \* run(): frame
    processed_frame, \* run(): processed_frame
    lastKey,         \* key event seen by the latest cv2.waitKey
    prev_time,       \* FPSCounter.prev_time
    current_time,    \* FPSCounter.current_time
    fps,             \* FPSCounter.fps, the fraction <<numerator, denominator>>
    n,               \* counts of the backend calls made
    printed          \* counts of the console lines printed

ctl == <<mode, pc, ret, exc, caught, escaped, result, prevOp, nCalls>>
dev == <<cap, newcap, opened, nextHandle, openFailures>>
gui == <<windows, presented>>
loop == <<running, frame, processed_frame, lastKey>>
mon == <<prev_time, current_time, fps>>
vars == <<ctl, dev, gui, loop, mon, n, printed>>

(***************************************************************************)
(* Bounds of the model.                                                    *)
(***************************************************************************)
MaxFrames == 3      \* frames the device delivers before the stream ends
MaxTime == 3        \* time.time() ranges over 1..MaxTime seconds
MaxCalls == 4       \* direct method calls made in api mode

(***************************************************************************)
(* Values.                                                                 *)
(***************************************************************************)
NoCap == 0          \* self.cap = None; VideoCapture objects are numbered from 1
NoText == -1        \* no overlay text on the frame
None == [pix |-> <<>>, text |-> NoText]   \* the no-frame value
NoKey == [char |-> -1, mods |-> 0]
window_name == "PunchTracker"
KeyQ == 113         \* ord('q')
ByteMask == 256     \* x & 0xFF is x % 256
Times == 1..MaxTime
RawFrames == {<<0, 1>>, <<1, 1>>}
\* A pressed key: its character code and the modifier flags some backends
\* put above bit 16 of the code (0x10 is NumLock on GTK).
KeyEvents == {NoKey} \cup [char : {KeyQ, 81, 97}, mods : {0, 16}]
Zero == <<0, 1>>
NoCounts == [reads |-> 0, frames |-> 0, updates |-> 0, draws |-> 0,
             presents |-> 0, polls |-> 0, cleanups |-> 0, devReleases |-> 0]
NoPrints == [init |-> 0, fail |-> 0, error |-> 0, shutdown |-> 0]
NoResult == [op |-> "none", out |-> "none", frame |-> None, rate |-> Zero]
Bump(r, f) == [r EXCEPT ![f] = @ + 1]

(***************************************************************************)
(* Pure parts of the methods.                                              *)
(***************************************************************************)
\* cv2.flip(frame, 1): column x of the result is column width-1-x of the input
flip(pix) == [x \in 1..Len(pix) |-> pix[Len(pix) + 1 - x]]

\* int(self.fps) for a non-negative fraction
IntOf(q) == q[1] \div q[2]

\* read without the check of line 49: an unstarted stream yields no frame
read_unchecked(c, o, devOk, raw) ==
    IF ~(devOk /\ c \in o)
    THEN [raised |-> "none", val |-> None, devReads |-> 0]
    ELSE [raised |-> "none",
          val |-> [pix |-> flip(raw), text |-> NoText],
          devReads |-> 1]

\* VideoStream.read: c is self.cap, o the opened devices, devOk whether the
\* device delivers a frame, raw the frame it delivers
read(c, o, devOk, raw) ==
    IF c = NoCap
    THEN [raised |-> "RuntimeError", val |-> None, devReads |-> 0]
    ELSE IF ~(devOk /\ c \in o)
         THEN [raised |-> "none", val |-> None, devReads |-> 1]
         ELSE [raised |-> "none",
               val |-> [pix |-> flip(raw), text |-> NoText],
               devReads |-> 1]

\* release without the check of line 64: None has no release()
release_unguarded(c, o) ==
    [cap |-> NoCap, opened |-> o \ {c},
     devReleases |-> IF c # NoCap THEN 1 ELSE 0,
     raised |-> IF c = NoCap THEN "AttributeError" ELSE "none"]

\* VideoStream.release
release(c, o) ==
    IF c # NoCap
    THEN [cap |-> NoCap, opened |-> o \ {c},
          devReleases |-> 1, raised |-> "none"]
    ELSE [cap |-> c, opened |-> o, devReleases |-> 0, raised |-> "none"]

\* update without line 86: the previous timestamp is not advanced
update_stale(prev, rate, now) ==
    LET time_diff == now - prev
        newRate == IF time_diff > 0 THEN <<1, time_diff>> ELSE rate
    IN [current_time |-> now, prev_time |-> prev, fps |-> newRate,
        ret |-> newRate]

\* FPSCounter.update: now is the value of time.time()
update(prev, rate, now) ==
    LET time_diff == now - prev
        newRate == IF time_diff > 0 THEN <<1, time_diff>> ELSE rate
    IN [current_time |-> now, prev_time |-> now, fps |-> newRate,
        ret |-> newRate]

\* FPSCounter.draw
draw(rate, f) == [f EXCEPT !.text = IntOf(rate)]

\* cv2.waitKey(1): -1 without a key, else the key code with its flags
waitKey(ev) == IF ev = NoKey THEN -1 ELSE ev.mods * 65536 + ev.char

\* the comparison of line 158 without the mask of line 157
IsQuitUnmasked(ev) == waitKey(ev) = KeyQ

\* run(): key = cv2.waitKey(1) & 0xFF; key == ord('q')
IsQuit(ev) == (waitKey(ev) % ByteMask) = KeyQ

\* an except clause for the device failure alone
CatchesIOError(e) == e = "IOError"

\* main(): except Exception
Catches(e) == e \in {"IOError", "RuntimeError", "cv2.error", "AttributeError"}

(***************************************************************************)
(* Control transfer.                                                       *)
(***************************************************************************)
Goto(p) ==
    /\ pc' = p
    /\ UNCHANGED <<mode, ret, exc, caught, escaped, result, prevOp, nCalls>>

Call(p, back) ==
    /\ pc' = p
    /\ ret' = Append(ret, back)
    /\ UNCHANGED <<mode, exc, caught, escaped, result, prevOp, nCalls>>

Return ==
    /\ pc' = ret[Len(ret)]
    /\ ret' = SubSeq(ret, 1, Len(ret) - 1)
    /\ result' = IF mode = "api" /\ Len(ret) = 1
                 THEN [result EXCEPT !.out = "ok"] ELSE result
    /\ UNCHANGED <<mode, exc, caught, escaped, prevOp, nCalls>>

\* An exception unwinds every call in progress: to main()'s except clause, or
\* to the direct caller.
Raise(e) ==
    /\ pc' = IF mode = "main" THEN "m_except" ELSE "idle"
    /\ ret' = <<>>
    /\ exc' = IF mode = "main" THEN e ELSE exc
    /\ result' = IF mode = "api" THEN [result EXCEPT !.out = e] ELSE result
    /\ UNCHANGED <<mode, caught, escaped, prevOp, nCalls>>

(***************************************************************************)
(* VideoStream.start, in two steps: the construction of the VideoCapture   *)
(* (right-hand side of line 33) and the rest of the method.                *)
(***************************************************************************)
StartOpen ==
    /\ pc = "st_open"
    /\ \E ok \in BOOLEAN :
        /\ newcap' = nextHandle
        /\ opened' = IF ok THEN opened \cup {nextHandle} ELSE opened
        /\ openFailures' = IF ok THEN openFailures ELSE openFailures + 1
    /\ nextHandle' = nextHandle + 1
    /\ Goto("st_assign")
    /\ UNCHANGED <<cap, gui, loop, mon, n, printed>>

\* start without the check of lines 35-36
StartAssignUnchecked ==
    /\ pc = "st_assign"
    /\ cap' = newcap
    /\ newcap' = NoCap
    /\ opened' = IF cap # NoCap THEN opened \ {cap} ELSE opened
    /\ Return
    /\ UNCHANGED <<nextHandle, openFailures, gui, loop, mon, n, printed>>

\* The object self.cap referred to loses its last reference at the assignment
\* and its destructor releases its device.
StartAssign ==
    /\ pc = "st_assign"
    /\ cap' = newcap
    /\ newcap' = NoCap
    /\ opened' = IF cap # NoCap THEN opened \ {cap} ELSE opened
    /\ IF newcap \in opened THEN Return ELSE Raise("IOError")
    /\ UNCHANGED <<nextHandle, openFailures, gui, loop, mon, n, printed>>

(***************************************************************************)
(* BoxingStrikeVision.setup                                                *)
(***************************************************************************)
SetupStart ==
    /\ pc = "s_start"
    /\ Call("st_open", "s_window")
    /\ UNCHANGED <<dev, gui, loop, mon, n, printed>>

SetupWindow ==
    /\ pc = "s_window"
    /\ \E guiOk \in BOOLEAN :
        IF guiOk
        THEN /\ windows' = windows \cup {window_name}
             /\ printed' = Bump(printed, "init")
             /\ Return
        ELSE /\ Raise("cv2.error")
             /\ UNCHANGED <<windows, printed>>
    /\ UNCHANGED <<dev, presented, loop, mon, n>>

(***************************************************************************)
(* BoxingStrikeVision.process_frame                                        *)
(***************************************************************************)
\* process_frame without line 133: the overlay is drawn from a stale rate
process_frame_no_update(f, cur, prev, rate, now) ==
    IF f = None
    THEN [val |-> None, updates |-> 0, draws |-> 0,
          current_time |-> cur, prev_time |-> prev, fps |-> rate]
    ELSE [val |-> draw(rate, f), updates |-> 0, draws |-> 1,
          current_time |-> cur, prev_time |-> prev, fps |-> rate]

process_frame(f, cur, prev, rate, now) ==
    IF f = None
    THEN [val |-> None, updates |-> 0, draws |-> 0,
          current_time |-> cur, prev_time |-> prev, fps |-> rate]
    ELSE LET u == update(prev, rate, now)
         IN [val |-> draw(u.fps, f), updates |-> 1, draws |-> 1,
             current_time |-> u.current_time, prev_time |-> u.prev_time,
             fps |-> u.fps]

(***************************************************************************)
(* BoxingStrikeVision.run                                                  *)
(***************************************************************************)
RunEntry ==
    /\ pc = "r_entry"
    /\ running' = TRUE
    /\ Goto("r_test")
    /\ UNCHANGED <<dev, gui, frame, processed_frame, lastKey, mon, n, printed>>

RunTest ==
    /\ pc = "r_test"
    /\ IF running THEN Goto("r_read") ELSE Return
    /\ UNCHANGED <<dev, gui, loop, mon, n, printed>>

\* run with the read retried after the no-frame value instead of line 148
RunReadRetry ==
    /\ pc = "r_read"
    /\ \E devOk \in (IF n.frames < MaxFrames THEN BOOLEAN ELSE {FALSE}),
          raw \in RawFrames :
        LET r == read(cap, opened, devOk, raw) IN
        /\ n' = [n EXCEPT !.reads = @ + r.devReads,
                          !.frames = @ + (IF r.val # None THEN 1 ELSE 0)]
        /\ IF r.raised # "none"
           THEN /\ Raise(r.raised)
                /\ UNCHANGED <<frame, printed>>
           ELSE /\ frame' = r.val
                /\ IF r.val = None
                   THEN /\ printed' = Bump(printed, "fail")
                        /\ Goto("r_test")
                   ELSE /\ Goto("r_process")
                        /\ UNCHANGED printed
    /\ UNCHANGED <<dev, gui, running, processed_frame, lastKey, mon>>

RunRead ==
    /\ pc = "r_read"
    /\ \E devOk \in (IF n.frames < MaxFrames THEN BOOLEAN ELSE {FALSE}),
          raw \in RawFrames :
        LET r == read(cap, opened, devOk, raw) IN
        /\ n' = [n EXCEPT !.reads = @ + r.devReads,
                          !.frames = @ + (IF r.val # None THEN 1 ELSE 0)]
        /\ IF r.raised # "none"
           THEN /\ Raise(r.raised)
                /\ UNCHANGED <<frame, printed>>
           ELSE /\ frame' = r.val
                /\ IF r.val = None
                   THEN /\ printed' = Bump(printed, "fail")
                        /\ Return
                   ELSE /\ Goto("r_process")
                        /\ UNCHANGED printed
    /\ UNCHANGED <<dev, gui, running, processed_frame, lastKey, mon>>

RunProcess ==
    /\ pc = "r_process"
    /\ \E now \in Times :
        LET p == process_frame(frame, current_time, prev_time, fps, now) IN
        /\ processed_frame' = p.val
        /\ current_time' = p.current_time
        /\ prev_time' = p.prev_time
        /\ fps' = p.fps
        /\ n' = [n EXCEPT !.updates = @ + p.updates, !.draws = @ + p.draws]
    /\ Goto("r_show")
    /\ UNCHANGED <<dev, gui, running, frame, lastKey, printed>>

\* cv2.imshow creates the window when no window of that name exists
RunShow ==
    /\ pc = "r_show"
    /\ \E guiOk \in BOOLEAN :
        IF guiOk
        THEN /\ windows' = windows \cup {window_name}
             /\ presented' = processed_frame
             /\ n' = Bump(n, "presents")
             /\ Goto("r_poll")
        ELSE /\ Raise("cv2.error")
             /\ UNCHANGED <<windows, presented, n>>
    /\ UNCHANGED <<dev, loop, mon, printed>>

RunPoll ==
    /\ pc = "r_poll"
    /\ \E ev \in KeyEvents :
        /\ lastKey' = ev
        /\ running' = IF IsQuit(ev) THEN FALSE ELSE running
    /\ n' = Bump(n, "polls")
    /\ Goto("r_test")
    /\ UNCHANGED <<dev, gui, frame, processed_frame, mon, printed>>

(***************************************************************************)
(* BoxingStrikeVision.cleanup                                              *)
(***************************************************************************)
cleanup(c, o, w) ==
    LET r == release(c, o)
    IN [cap |-> r.cap, opened |-> r.opened, devReleases |-> r.devReleases,
        raised |-> r.raised,
        windows |-> IF r.raised = "none" THEN {} ELSE w,
        shutdown |-> IF r.raised = "none" THEN 1 ELSE 0]

(***************************************************************************)
(* main()                                                                  *)
(***************************************************************************)
MainSetup ==
    /\ mode = "main"
    /\ pc = "m_try"
    /\ Call("s_start", "m_run")
    /\ UNCHANGED <<dev, gui, loop, mon, n, printed>>

MainRun ==
    /\ mode = "main"
    /\ pc = "m_run"
    /\ Call("r_entry", "m_finally")
    /\ UNCHANGED <<dev, gui, loop, mon, n, printed>>

MainExcept ==
    /\ mode = "main"
    /\ pc = "m_except"
    /\ pc' = "m_finally"
    /\ IF Catches(exc)
       THEN /\ caught' = exc
            /\ exc' = "none"
            /\ printed' = Bump(printed, "error")
       ELSE UNCHANGED <<caught, exc, printed>>
    /\ UNCHANGED <<mode, ret, escaped, result, prevOp, nCalls>>
    /\ UNCHANGED <<dev, gui, loop, mon, n>>

MainFinally ==
    /\ mode = "main"
    /\ pc = "m_finally"
    /\ LET c == cleanup(cap, opened, windows) IN
        /\ cap' = c.cap
        /\ opened' = c.opened
        /\ windows' = c.windows
        /\ n' = [n EXCEPT !.cleanups = @ + 1,
                          !.devReleases = @ + c.devReleases]
        /\ printed' = [printed EXCEPT !.shutdown = @ + c.shutdown]
        /\ escaped' = (exc # "none" \/ c.raised # "none")
    /\ pc' = "m_done"
    /\ UNCHANGED <<mode, ret, exc, caught, result, prevOp, nCalls>>
    /\ UNCHANGED <<newcap, nextHandle, openFailures, presented, loop, mon>>

(***************************************************************************)
(* The program as main() runs it.                                          *)
(***************************************************************************)
Objects ==
    /\ exc = "none" /\ caught = "none" /\ escaped = FALSE
    /\ result = NoResult
    /\ prevOp = "none" /\ nCalls = 0
    /\ cap = NoCap /\ newcap = NoCap /\ opened = {}
    /\ nextHandle = 1 /\ openFailures = 0
    /\ windows = {} /\ presented = None
    /\ running = FALSE /\ frame = None /\ processed_frame = None
    /\ lastKey = NoKey
    /\ prev_time = 0 /\ current_time = 0 /\ fps = Zero
    /\ n = NoCounts /\ printed = NoPrints

Init ==
    /\ mode = "main" /\ pc = "m_try" /\ ret = <<>>
    /\ Objects

Next ==
    \/ MainSetup
    \/ SetupStart
    \/ StartOpen
    \/ StartAssign
    \/ SetupWindow
    \/ MainRun
    \/ RunEntry
    \/ RunTest
    \/ RunRead
    \/ RunProcess
    \/ RunShow
    \/ RunPoll
    \/ MainExcept
    \/ MainFinally

Spec == Init /\ [][Next]_vars

(***************************************************************************)
(* The methods called directly, in any order, by a caller that catches     *)
(* what they raise.                                                        *)
(***************************************************************************)
Begin(op) ==
    /\ mode = "api"
    /\ pc = "idle"
    /\ nCalls < MaxCalls
    /\ nCalls' = nCalls + 1
    /\ prevOp' = result.op
    /\ result' = [NoResult EXCEPT !.op = op, !.out = "pending"]
    /\ UNCHANGED <<mode, exc, caught, escaped>>

Done(op, out, f, rate) ==
    /\ mode = "api"
    /\ pc = "idle"
    /\ nCalls < MaxCalls
    /\ nCalls' = nCalls + 1
    /\ prevOp' = result.op
    /\ result' = [op |-> op, out |-> out, frame |-> f, rate |-> rate]
    /\ UNCHANGED <<mode, pc, ret, exc, caught, escaped>>

CallStart ==
    /\ Begin("start")
    /\ pc' = "st_open"
    /\ ret' = <<"idle">>
    /\ UNCHANGED <<dev, gui, loop, mon, n, printed>>

CallSetup ==
    /\ Begin("setup")
    /\ pc' = "s_start"
    /\ ret' = <<"idle">>
    /\ UNCHANGED <<dev, gui, loop, mon, n, printed>>

CallRead ==
    /\ \E devOk \in (IF n.frames < MaxFrames THEN BOOLEAN ELSE {FALSE}),
          raw \in RawFrames :
        LET r == read(cap, opened, devOk, raw) IN
        /\ n' = [n EXCEPT !.reads = @ + r.devReads,
                          !.frames = @ + (IF r.val # None THEN 1 ELSE 0)]
        /\ Done("read",
                IF r.raised # "none" THEN r.raised
                ELSE IF r.val = None THEN "None" ELSE "frame",
                r.val, Zero)
    /\ UNCHANGED <<dev, gui, loop, mon, printed>>

CallRelease ==
    /\ LET r == release(cap, opened) IN
        /\ cap' = r.cap
        /\ opened' = r.opened
        /\ n' = [n EXCEPT !.devReleases = @ + r.devReleases]
        /\ Done("release", IF r.raised # "none" THEN r.raised ELSE "ok",
                None, Zero)
    /\ UNCHANGED <<newcap, nextHandle, openFailures, gui, loop, mon, printed>>

CallUpdate ==
    /\ \E now \in Times :
        LET u == update(prev_time, fps, now) IN
        /\ current_time' = u.current_time
        /\ prev_time' = u.prev_time
        /\ fps' = u.fps
        /\ Done("update", "ok", None, u.ret)
    /\ n' = Bump(n, "updates")
    /\ UNCHANGED <<dev, gui, loop, printed>>

CallProcessFrame ==
    /\ \E now \in Times, f \in {None} \cup {[pix |-> r, text |-> NoText] : r \in RawFrames} :
        LET p == process_frame(f, current_time, prev_time, fps, now) IN
        /\ current_time' = p.current_time
        /\ prev_time' = p.prev_time
        /\ fps' = p.fps
        /\ n' = [n EXCEPT !.updates = @ + p.updates, !.draws = @ + p.draws]
        /\ Done("process_frame", IF p.val = None THEN "None" ELSE "frame",
                p.val, Zero)
    /\ UNCHANGED <<dev, gui, loop, printed>>

CallCleanup ==
    /\ LET c == cleanup(cap, opened, windows) IN
        /\ cap' = c.cap
        /\ opened' = c.opened
        /\ windows' = c.windows
        /\ n' = [n EXCEPT !.cleanups = @ + 1,
                          !.devReleases = @ + c.devReleases]
        /\ printed' = [printed EXCEPT !.shutdown = @ + c.shutdown]
        /\ Done("cleanup", IF c.raised # "none" THEN c.raised ELSE "ok",
                None, Zero)
    /\ UNCHANGED <<newcap, nextHandle, openFailures, presented, loop, mon>>

InitAPI ==
    /\ mode = "api" /\ pc = "idle" /\ ret = <<>>
    /\ Objects

NextAPI ==
    \/ CallStart
    \/ CallRead
    \/ CallRelease
    \/ CallUpdate
    \/ CallProcessFrame
    \/ CallSetup
    \/ CallCleanup
    \/ SetupStart
    \/ StartOpen
    \/ StartAssign
    \/ SetupWindow

SpecAPI == InitAPI /\ [][NextAPI]_vars

(***************************************************************************)
(* Properties.                                                             *)
(***************************************************************************)
InRun == pc \in {"r_entry", "r_test", "r_read", "r_process", "r_show", "r_poll"}
AfterRun == pc \in {"m_except", "m_finally", "m_done"}
SentinelSeen == n.reads > n.frames
IsRelease == result'.op = "release" /\ nCalls' = nCalls + 1
IsRead == result'.op = "read" /\ nCalls' = nCalls + 1
IsUpdate == result'.op = "update" /\ nCalls' = nCalls + 1

C2_OpenFailure ==
    (openFailures > 0 /\ pc # "st_assign") =>
        /\ AfterRun
        /\ exc = "IOError" \/ caught = "IOError"
        /\ windows = {} /\ printed.init = 0
        /\ ~running /\ n.reads = 0 /\ n.presents = 0
        /\ pc = "m_done" => n.cleanups = 1 /\ cap = NoCap /\ opened = {}

C2_Witness ==
    pc = "m_done" /\ openFailures = 1 /\ caught = "IOError"

\* C3: once a read of run() has given the no-frame value on iteration k, the
\* loop is over: reads = k, frames processed and presented = k-1, the failure
\* notice was printed once (and never without a no-frame read), and main()
\* ends with exactly one cleanup.
C3_SentinelEndsLoop ==
    /\ SentinelSeen =>
        /\ n.reads = n.frames + 1
        /\ n.updates = n.frames /\ n.draws = n.frames
        /\ n.presents = n.frames /\ n.polls = n.frames
        /\ printed.fail = 1
        /\ pc \in {"m_finally", "m_done"}
        /\ pc = "m_done" => n.cleanups = 1
    /\ ~SentinelSeen => printed.fail = 0

C3_Witness ==
    pc = "m_done" /\ n.reads = 3 /\ n.frames = 2 /\ printed.fail = 1

C5_StoppedAfterRun ==
    (pc \in {"m_finally", "m_done"} /\ caught = "none" /\ exc = "none")
        => ~running

\* C6: release() never raises and leaves the handle unset; called with the
\* handle already unset it releases no device and changes nothing.
C6_ReleaseIdempotent ==
    [][IsRelease =>
        /\ result'.out = "ok"
        /\ cap' = NoCap
        /\ cap # NoCap => opened' = opened \ {cap}
        /\ cap = NoCap =>
            /\ n' = n
            /\ UNCHANGED <<dev, gui, loop, mon, printed>>]_vars

C6_Witness ==
    /\ result = [NoResult EXCEPT !.op = "release", !.out = "ok"]
    /\ prevOp = "release"
    /\ n.devReleases = 1

\* C7: read() on a VideoStream whose start() was never called raises
\* RuntimeError, returns neither a frame nor the no-frame value, reads no
\* device and changes nothing.
C7_ReadBeforeStart ==
    [][(IsRead /\ nextHandle = 1) =>
        /\ result'.out = "RuntimeError"
        /\ result'.frame = None
        /\ n' = n
        /\ UNCHANGED <<dev, gui, loop, mon, printed>>]_vars

C7_Witness ==
    /\ result.op = "read" /\ result.out = "RuntimeError"
    /\ prevOp = "release"
    /\ nextHandle = 1

\* C8: update() with d = time.time() - prev_time sets fps to 1/d when d > 0
\* and leaves it when d = 0; either way prev_time becomes the current time
\* and the value returned is the stored fps.
C8_Update ==
    [][IsUpdate =>
        LET d == current_time' - prev_time IN
        /\ d > 0 => fps' = <<1, d>>
        /\ d = 0 => fps' = fps
        /\ prev_time' = current_time'
        /\ result'.rate = fps']_vars

\* two update() calls at the same time 1: the second has d = 0
C8_Witness ==
    /\ result.op = "update" /\ prevOp = "update" /\ nCalls = 2
    /\ prev_time = 1 /\ fps = <<1, 1>> /\ result.rate = <<1, 1>>

\* C9: at most one device is opened and unreleased and at most one window
\* exists, in every state.
C9_OneDeviceOneWindow ==
    Cardinality(opened) <= 1 /\ Cardinality(windows) <= 1

\* C10: in run() the order of an iteration is read, update, draw, present,
\* poll: the counts differ by the step the iteration is at and agree at the
\* iteration boundary; an iteration whose read gives no frame updates, draws,
\* presents and polls nothing; the rate monitor changes only in the update of
\* a frame just read.
C10_Counts ==
    /\ n.draws = n.updates
    /\ n.frames - 1 <= n.updates /\ n.updates <= n.frames
    /\ n.updates - 1 <= n.presents /\ n.presents <= n.updates
    /\ n.presents - 1 <= n.polls /\ n.polls <= n.presents
    /\ pc = "r_process" =>
        n.updates = n.frames - 1 /\ n.presents = n.updates
                                 /\ n.polls = n.updates
    /\ pc = "r_show" =>
        n.updates = n.frames /\ n.presents = n.frames - 1
                             /\ n.polls = n.frames - 1
    /\ pc = "r_poll" =>
        n.updates = n.frames /\ n.presents = n.frames
                             /\ n.polls = n.frames - 1
    /\ pc \in {"r_test", "r_read"} =>
        n.reads = n.frames /\ n.updates = n.frames
                           /\ n.presents = n.frames /\ n.polls = n.frames
    /\ SentinelSeen =>
        n.updates = n.frames /\ n.presents = n.frames /\ n.polls = n.frames

C10_OncePerFrame ==
    /\ []C10_Counts
    /\ [][mon' # mon =>
            /\ pc = "r_process"
            /\ n'.updates = n.updates + 1
            /\ n'.frames = n.frames]_vars

C10_Witness ==
    pc = "r_poll" /\ n.frames = 2 /\ n.updates = 2 /\ n.presents = 2
                  /\ n.polls = 1

====
